---- MODULE Spec2Model ----
(***************************************************************************)
(* Model of the type-erased container Any<SIZE> of any.hpp: the union of   *)
(* pointer slot and inline buffer, the small-buffer flag, the per-type     *)
(* operation tables, and construction / assignment / Swap / destruction.   *)
(*                                                                         *)
(* Memory is modelled at the level the code manipulates it:                *)
(*   - the union {mObject, mStorage} is ONE cell per container; writing    *)
(*     one member replaces the other;                                      *)
(*   - reading a member that is not the one last written yields an         *)
(*     indeterminate result, drawn from a set of possible outcomes;        *)
(*   - the heap is a finite set of cells handed out by new and returned    *)
(*     by delete.                                                          *)
(***************************************************************************)
EXTENDS Integers, FiniteSets, Sequences, TLC

VARIABLES any, heap, ext, fault

vars == <<any, heap, ext, fault>>

(***************************************************************************)
(* Bounds and program constants                                            *)
(***************************************************************************)
SIZE == 8

MaxAny == 2
MaxVal == 2
MaxHeap == 2

Slots == 1..MaxAny
TMP == 0
AllSlots == Slots \cup {TMP}
Values == 1..MaxVal

Types == {"int", "dbl", "str"}

SizeOf(t) == CASE t = "int" -> 4 [] t = "dbl" -> 8 [] t = "str" -> 32

(***************************************************************************)
(* Addresses                                                               *)
(***************************************************************************)
NULL == <<"null", 0>>
WILD == <<"wild", 0>>
HeapAddrs == {<<"heap", n>> : n \in 1..MaxHeap}
ExtAddrs == {<<"ext", 1>>}
ExtType(x) == "int"

\* outcomes of reading mObject while the union holds an inline object
GarbagePtrs == {WILD, NULL}

(***************************************************************************)
(* Operation tables: one singleton per T, one per Handle<T>                *)
(***************************************************************************)
NoVT == <<"none", "none">>
VTableT(t) == <<"val", t>>
VTableH(t) == <<"ref", t>>

(***************************************************************************)
(* The union and the container record                                      *)
(***************************************************************************)
Ptr(p) == [k |-> "ptr", p |-> p, t |-> "none", v |-> 0]
Obj(t, v) == [k |-> "obj", p |-> NULL, t |-> t, v |-> v]

\* mObject read: the stored pointer, or garbage if the union holds an object
ReadPtr(u, gp) == IF u.k = "ptr" THEN u.p ELSE gp

\* mStorage read as a T: the stored value, or garbage if the bytes are not a T
ReadObj(u, t, g) == IF u.k = "obj" /\ u.t = t THEN u.v ELSE g

DeadAny == [live |-> FALSE, mVTable |-> NoVT, u |-> Ptr(NULL), mSBO |-> FALSE]
\* a default constructor that leaves the table pointer as it finds it
AnyDefault_TableUnset ==
    [live |-> TRUE, mVTable |-> VTableT("int"), u |-> Ptr(NULL), mSBO |-> FALSE]

AnyDefault == [live |-> TRUE, mVTable |-> NoVT, u |-> Ptr(NULL), mSBO |-> FALSE]

FreeCell == [used |-> FALSE, t |-> "none", v |-> 0]
Cell(t, v) == [used |-> TRUE, t |-> t, v |-> v]

(***************************************************************************)
(* The world threaded through the code of one operation                    *)
(***************************************************************************)
W0 == [any |-> any, heap |-> heap, ext |-> ext, fault |-> fault,
       na |-> 0, nf |-> 0, nc |-> 0, nd |-> 0, lost |-> 0, oom |-> FALSE]

Fault(w, f) == IF w.fault = "none" THEN [w EXCEPT !.fault = f] ELSE w

\* a T was constructed in storage whose former contents were `over`: an
\* object still sitting there was never destroyed
Constructed(w, over) ==
    [w EXCEPT !.nc = @ + 1, !.lost = @ + (IF over.k = "obj" THEN 1 ELSE 0)]

\* a pointer was stored in the union whose former contents were `over`
Overwritten(w, over) ==
    [w EXCEPT !.lost = @ + (IF over.k = "obj" THEN 1 ELSE 0)]

\* ~T() ran on an object
Destructed(w) == [w EXCEPT !.nd = @ + 1]

ValidAt(w, p, t) ==
    \/ p \in HeapAddrs /\ w.heap[p].used /\ w.heap[p].t = t
    \/ p \in ExtAddrs /\ w.ext[p].alive /\ ExtType(p) = t

\* *static_cast<T const*>(p)
LoadVia(w, p, t, g) ==
    IF p \in HeapAddrs /\ w.heap[p].used /\ w.heap[p].t = t THEN w.heap[p].v
    ELSE IF p \in ExtAddrs /\ w.ext[p].alive /\ ExtType(p) = t THEN w.ext[p].v
    ELSE g

CheckAt(w, p, t) == IF ValidAt(w, p, t) THEN w ELSE Fault(w, "wild_access")

\* *static_cast<T*>(p) = v
StoreVia(w, p, t, v) ==
    IF p \in HeapAddrs /\ w.heap[p].used /\ w.heap[p].t = t
      THEN [w EXCEPT !.heap[p].v = v]
    ELSE IF p \in ExtAddrs /\ w.ext[p].alive /\ ExtType(p) = t
      THEN [w EXCEPT !.ext[p].v = v]
    ELSE Fault(w, "wild_access")

\* address operator new returns
NewAddr(w) ==
    IF \E h \in HeapAddrs : ~w.heap[h].used
      THEN CHOOSE h \in HeapAddrs :
             /\ ~w.heap[h].used
             /\ \A h2 \in HeapAddrs : ~w.heap[h2].used => h[2] <= h2[2]
      ELSE NULL

\* new T(v)
New(w, t, v) ==
    IF NewAddr(w) = NULL THEN [w EXCEPT !.oom = TRUE]
    ELSE [w EXCEPT !.heap[NewAddr(w)] = Cell(t, v), !.na = @ + 1, !.nc = @ + 1]

\* delete static_cast<T*>(p)
Delete(w, p, t) ==
    IF p = NULL THEN w
    ELSE IF p \in HeapAddrs /\ w.heap[p].used
      THEN IF w.heap[p].t = t
             THEN [w EXCEPT !.heap[p] = FreeCell, !.nf = @ + 1, !.nd = @ + 1]
             ELSE Fault([w EXCEPT !.heap[p] = FreeCell, !.nf = @ + 1, !.nd = @ + 1],
                        "type_mismatch")
    ELSE IF p \in HeapAddrs THEN Fault(w, "double_release")
    ELSE IF p \in ExtAddrs
      THEN Fault([w EXCEPT !.ext[p].alive = FALSE], "wild_release")
    ELSE Fault(w, "wild_release")

(***************************************************************************)
(* VTableT<T> and VTableT<Handle<T>>                                       *)
(***************************************************************************)

\* variant: the copy hands back the source address (a shallow copy)
CopyRet_Shallow(w, vt, from) == from

\* void *Copy(const void *from): the returned address
CopyRet(w, vt, from) == IF vt[1] = "ref" THEN from ELSE NewAddr(w)


\* variant: the reference table does not override Copy and allocates a T
Copy_RefAllocates(w, vt, from, g) ==
    New(CheckAt(w, from, vt[2]), vt[2], LoadVia(w, from, vt[2], g))

\* void *Copy(const void *from): the effect
Copy(w, vt, from, g) ==
    IF vt[1] = "ref" THEN w
    ELSE New(CheckAt(w, from, vt[2]), vt[2], LoadVia(w, from, vt[2], g))

\* the SBO copy and SBO move of a value table construct one T in *to; those
\* of the reference table and a call that never happens construct nothing
CountInto(w, vt, to) == IF vt[1] = "val" THEN Constructed(w, to) ELSE w

\* void Copy(void *to, const void *from): the new contents of *to
CopyInto(vt, to, from, g) ==
    IF vt[1] = "ref" THEN to ELSE Obj(vt[2], ReadObj(from, vt[2], g))


\* variant: the move hands back the source address (the pointer is stolen
\* while the source keeps it)
MoveRet_Shallow(w, vt, from) == from

\* void *Move(const void *from): from is a T const*, so T's copy constructor runs
MoveRet(w, vt, from) == IF vt[1] = "ref" THEN from ELSE NewAddr(w)

Move(w, vt, from, g) ==
    IF vt[1] = "ref" THEN w
    ELSE New(CheckAt(w, from, vt[2]), vt[2], LoadVia(w, from, vt[2], g))

\* void Move(void *to, const void *from): the new contents of *to
MoveInto(vt, to, from, g) ==
    IF vt[1] = "ref" THEN to ELSE Obj(vt[2], ReadObj(from, vt[2], g))


\* variant: the reference table does not override Destroy
Destroy_RefDeletes(w, vt, u, SBO, gp) ==
    IF SBO
      THEN IF u.k = "obj" /\ u.t = vt[2] THEN Destructed(w) ELSE Fault(w, "bad_destroy")
    ELSE Delete(w, ReadPtr(u, gp), vt[2])

\* void Destroy(void *object, bool SBO)
Destroy(w, vt, u, SBO, gp) ==
    IF vt[1] = "ref" THEN w
    ELSE IF SBO
      THEN IF u.k = "obj" /\ u.t = vt[2] THEN Destructed(w) ELSE Fault(w, "bad_destroy")
    ELSE Delete(w, ReadPtr(u, gp), vt[2])

(***************************************************************************)
(* Any: constructors and destructor                                        *)
(***************************************************************************)

\* variant: the inline overload forgets to set mSBO
CtorValue_NoFlag(w, i, t, v) ==
    IF SizeOf(t) <= SIZE
      THEN [Constructed(w, AnyDefault.u) EXCEPT !.any[i] =
                 [live |-> TRUE, mVTable |-> VTableT(t), u |-> Obj(t, v), mSBO |-> FALSE]]
      ELSE [New(w, t, v) EXCEPT !.any[i] =
                 [live |-> TRUE, mVTable |-> VTableT(t),
                  u |-> Ptr(NewAddr(w)), mSBO |-> FALSE]]

\* variant: the overloads are selected by sizeof < SIZE instead of <=
CtorValue_Strict(w, i, t, v) ==
    IF SizeOf(t) < SIZE
      THEN [Constructed(w, AnyDefault.u) EXCEPT !.any[i] =
                 [live |-> TRUE, mVTable |-> VTableT(t), u |-> Obj(t, v), mSBO |-> TRUE]]
      ELSE [New(w, t, v) EXCEPT !.any[i] =
                 [live |-> TRUE, mVTable |-> VTableT(t),
                  u |-> Ptr(NewAddr(w)), mSBO |-> FALSE]]

\* Any(T &&object), both overloads (the enable_if conditions select one)
CtorValue(w, i, t, v) ==
    IF SizeOf(t) <= SIZE
      THEN [Constructed(w, AnyDefault.u) EXCEPT !.any[i] =
                 [live |-> TRUE, mVTable |-> VTableT(t), u |-> Obj(t, v), mSBO |-> TRUE]]
      ELSE [New(w, t, v) EXCEPT !.any[i] =
                 [live |-> TRUE, mVTable |-> VTableT(t),
                  u |-> Ptr(NewAddr(w)), mSBO |-> FALSE]]

\* Any()
CtorDefault(w, i) == [w EXCEPT !.any[i] = AnyDefault]

\* Any(Handle<T> handle)
CtorHandle(w, i, x) ==
    [w EXCEPT !.any[i] = [live |-> TRUE, mVTable |-> VTableH(ExtType(x)),
                          u |-> Ptr(x), mSBO |-> FALSE]]

\* Any(const Any &other)
CtorCopy(w, i, j, g, gp) ==
    LET o == w.any[j] IN
    IF o.mVTable = NoVT THEN [w EXCEPT !.any[i] = AnyDefault]
    ELSE IF o.mSBO
      THEN [CountInto(w, o.mVTable, AnyDefault.u) EXCEPT !.any[i] =
              [live |-> TRUE, mVTable |-> o.mVTable,
               u |-> CopyInto(o.mVTable, AnyDefault.u, o.u, g), mSBO |-> o.mSBO]]
      ELSE [Copy(w, o.mVTable, ReadPtr(o.u, gp), g) EXCEPT !.any[i] =
              [live |-> TRUE, mVTable |-> o.mVTable,
               u |-> Ptr(CopyRet(w, o.mVTable, ReadPtr(o.u, gp))), mSBO |-> o.mSBO]]


\* variant: the move constructor resets the source to the empty state
CtorMove_ResetsSource(w, i, j, g, gp) ==
    LET o == w.any[j] IN
    IF o.mVTable = NoVT THEN [w EXCEPT !.any[i] = AnyDefault]
    ELSE IF o.mSBO
      THEN [w EXCEPT !.any[i] =
              [live |-> TRUE, mVTable |-> o.mVTable,
               u |-> MoveInto(o.mVTable, AnyDefault.u, o.u, g), mSBO |-> o.mSBO],
                     !.any[j] = AnyDefault]
      ELSE [w EXCEPT !.any[i] =
              [live |-> TRUE, mVTable |-> o.mVTable,
               u |-> Ptr(ReadPtr(o.u, gp)), mSBO |-> o.mSBO],
                     !.any[j] = AnyDefault]

\* Any(Any &&other)
CtorMove(w, i, j, g, gp) ==
    LET o == w.any[j] IN
    IF o.mVTable = NoVT THEN [w EXCEPT !.any[i] = AnyDefault]
    ELSE IF o.mSBO
      THEN [CountInto(w, o.mVTable, AnyDefault.u) EXCEPT !.any[i] =
              [live |-> TRUE, mVTable |-> o.mVTable,
               u |-> MoveInto(o.mVTable, AnyDefault.u, o.u, g), mSBO |-> o.mSBO]]
      ELSE [Move(w, o.mVTable, ReadPtr(o.u, gp), g) EXCEPT !.any[i] =
              [live |-> TRUE, mVTable |-> o.mVTable,
               u |-> Ptr(MoveRet(w, o.mVTable, ReadPtr(o.u, gp))), mSBO |-> o.mSBO]]

\* ~Any()
Dtor(w, i, gp) ==
    LET a == w.any[i] IN
    [(IF a.mVTable # NoVT THEN Destroy(w, a.mVTable, a.u, a.mSBO, gp) ELSE w)
       EXCEPT !.any[i] = DeadAny]

(***************************************************************************)
(* Any::Swap, statement by statement (i is *this, j is other)              *)
(***************************************************************************)
\* mVTable->Move(to, from) through a possibly null table pointer
CallMoveInto(vt, to, from, g) == IF vt = NoVT THEN to ELSE MoveInto(vt, to, from, g)

NullCall(w, vt) == IF vt = NoVT THEN Fault(w, "null_call") ELSE w

SwapBothSBO(w, i, j, g) ==
    LET storageTemp == CallMoveInto(w.any[i].mVTable, Ptr(WILD), w.any[i].u, g)
        w1 == CountInto(NullCall(w, w.any[i].mVTable), w.any[i].mVTable, Ptr(WILD))
        w2 == [CountInto(NullCall(w1, w1.any[j].mVTable), w1.any[j].mVTable, w1.any[i].u)
                 EXCEPT !.any[i].u =
                   CallMoveInto(w1.any[j].mVTable, w1.any[i].u, w1.any[j].u, g)]
        w3 == [CountInto(w2, w2.any[i].mVTable, w2.any[j].u) EXCEPT !.any[j].u =
                 CallMoveInto(w2.any[i].mVTable, w2.any[j].u, storageTemp, g)]
    IN Overwritten(w3, storageTemp)

\* the inline/not-inline branch of Swap without its two flag assignments
SwapThisSBO_KeepsFlags(w, i, j, g, gp) ==
    LET w1 == [Overwritten(w, w.any[i].u) EXCEPT !.any[i].u = Ptr(ReadPtr(w.any[j].u, gp))]
        w3 == [CountInto(NullCall(w1, w1.any[i].mVTable), w1.any[i].mVTable, w1.any[j].u)
                 EXCEPT !.any[j].u =
                   CallMoveInto(w1.any[i].mVTable, w1.any[j].u, w1.any[i].u, g)]
    IN w3

SwapThisSBO(w, i, j, g, gp) ==
    LET w1 == [Overwritten(w, w.any[i].u) EXCEPT !.any[i].u = Ptr(ReadPtr(w.any[j].u, gp))]
        w2 == [w1 EXCEPT !.any[i].mSBO = FALSE]
        w3 == [CountInto(NullCall(w2, w2.any[i].mVTable), w2.any[i].mVTable, w2.any[j].u)
                 EXCEPT !.any[j].u =
                   CallMoveInto(w2.any[i].mVTable, w2.any[j].u, w2.any[i].u, g)]
        w4 == [w3 EXCEPT !.any[j].mSBO = TRUE]
    IN w4

SwapOtherSBO(w, i, j, g, gp) ==
    LET w1 == [CountInto(NullCall(w, w.any[j].mVTable), w.any[j].mVTable, w.any[i].u)
                 EXCEPT !.any[i].u =
                   CallMoveInto(w.any[j].mVTable, w.any[i].u, w.any[j].u, g)]
        w2 == [w1 EXCEPT !.any[i].mSBO = TRUE]
        w3 == [Overwritten(w2, w2.any[j].u) EXCEPT !.any[j].u = Ptr(ReadPtr(w2.any[i].u, gp))]
        w4 == [w3 EXCEPT !.any[j].mSBO = FALSE]
    IN w4

SwapNoSBO(w, i, j, gp) ==
    LET objectTemp == ReadPtr(w.any[i].u, gp)
        w1 == [w EXCEPT !.any[i].u = Ptr(ReadPtr(w.any[j].u, gp))]
        w2 == [w1 EXCEPT !.any[j].u = Ptr(objectTemp)]
    IN w2

SwapVTable(w, i, j) ==
    LET vTableTemp == w.any[i].mVTable
        w1 == [w EXCEPT !.any[i].mVTable = w.any[j].mVTable]
        w2 == [w1 EXCEPT !.any[j].mVTable = vTableTemp]
    IN w2

Swap(w, i, j, g, gp) ==
    SwapVTable(
      IF w.any[i].mSBO
        THEN IF w.any[j].mSBO THEN SwapBothSBO(w, i, j, g)
                              ELSE SwapThisSBO(w, i, j, g, gp)
        ELSE IF w.any[j].mSBO THEN SwapOtherSBO(w, i, j, g, gp)
                              ELSE SwapNoSBO(w, i, j, gp),
      i, j)

(***************************************************************************)
(* Any: assignment                                                         *)
(***************************************************************************)
\* an Is<T>() that compares with the value table only
Is_ValueOnly(a, t) == a.mVTable = VTableT(t)

\* bool Is<T>() const
Is(a, t) == a.mVTable = VTableH(t) \/ a.mVTable = VTableT(t)

\* a copy assignment that destroys *this first and then copies from other,
\* without the temporary
OpAssignCopy_Naive(w, i, j, g, gp) == CtorCopy(Dtor(w, i, gp), i, j, g, gp)

\* Any &operator=(const Any &other)
OpAssignCopy(w, i, j, g, gp) == Dtor(Swap(CtorCopy(w, TMP, j, g, gp), i, TMP, g, gp), TMP, gp)

\* Any &operator=(Any &&other)
OpAssignMove(w, i, j, g, gp) == Dtor(Swap(CtorMove(w, TMP, j, g, gp), i, TMP, g, gp), TMP, gp)

\* Any(const Any &other) when VTable::Copy throws (operator new fails, or
\* T's copy constructor throws; `late` says operator new had succeeded, and
\* the new-expression releases the cell again).  The delegated Any() has
\* completed, so the container exists, empty.
CtorCopyThrows(w, i, j, late) ==
    LET w1 == CtorDefault(w, i) IN
    IF late /\ ~w.any[j].mSBO /\ NewAddr(w) # NULL
      THEN [w1 EXCEPT !.na = @ + 1, !.nf = @ + 1]
      ELSE w1

\* Any(Any &&other) when VTable::Move throws
CtorMoveThrows(w, i, j, late) ==
    LET w1 == CtorDefault(w, i) IN
    IF late /\ ~w.any[j].mSBO /\ NewAddr(w) # NULL
      THEN [w1 EXCEPT !.na = @ + 1, !.nf = @ + 1]
      ELSE w1

\* a copy assignment whose temporary is torn down before the exception is
\* thrown, i.e. one that has already destroyed *this
OpAssignCopyThrows_DestroysFirst(w, i, j, late, gp) ==
    Fault(CtorCopyThrows(Dtor(w, i, gp), i, j, late), "exception")

\* Any &operator=(const Any &other) when constructing temp throws: Swap is
\* never reached, unwinding destroys temp, the exception leaves operator=
OpAssignCopyThrows(w, i, j, late, gp) ==
    Fault(Dtor(CtorCopyThrows(w, TMP, j, late), TMP, gp), "exception")

\* Any &operator=(Any &&other) when constructing temp throws
OpAssignMoveThrows(w, i, j, late, gp) ==
    Fault(Dtor(CtorMoveThrows(w, TMP, j, late), TMP, gp), "exception")

\* Any &operator=(Handle<T> handle)
OpAssignHandle(w, i, x, g, gp) == Dtor(Swap(CtorHandle(w, TMP, x), i, TMP, g, gp), TMP, gp)

\* the other-type branch placing every value on the heap
PlaceOther_Heap(w, i, t, v) ==
    [New(w, t, v) EXCEPT !.any[i].u = Ptr(NewAddr(w)), !.any[i].mSBO = FALSE]

\* the placement branch taken when the container held another type
PlaceOther(w, i, t, v) ==
    IF SizeOf(t) <= SIZE
      THEN [Constructed(w, AnyDefault.u) EXCEPT !.any[i].u = Obj(t, v), !.any[i].mSBO = TRUE]
      ELSE [New(w, t, v) EXCEPT !.any[i].u = Ptr(NewAddr(w)), !.any[i].mSBO = FALSE]

\* the placement branch taken when the container was empty
PlaceEmpty(w, i, t, v) ==
    IF SizeOf(t) < SIZE
      THEN [Constructed(w, AnyDefault.u) EXCEPT !.any[i].u = Obj(t, v), !.any[i].mSBO = TRUE]
      ELSE [New(w, t, v) EXCEPT !.any[i].u = Ptr(NewAddr(w)), !.any[i].mSBO = FALSE]

\* operator=(T &&) without its same-type branch: the held object is always
\* destroyed and a new one placed
OpAssignValue_Rebuilds(w, i, t, v, gp) ==
    LET a == w.any[i] IN
    IF a.mVTable # NoVT
      THEN [PlaceOther(Destroy(w, a.mVTable, a.u, a.mSBO, gp), i, t, v)
              EXCEPT !.any[i].mVTable = VTableT(t)]
      ELSE [PlaceEmpty(w, i, t, v) EXCEPT !.any[i].mVTable = VTableT(t)]

\* Any &operator=(T &&object)
OpAssignValue(w, i, t, v, gp) ==
    LET a == w.any[i] IN
    IF a.mVTable # NoVT
      THEN IF Is(a, t)
             THEN IF a.mSBO
                    THEN [w EXCEPT !.any[i].u = Obj(t, v)]
                    ELSE StoreVia(w, ReadPtr(a.u, gp), t, v)
             ELSE [PlaceOther(Destroy(w, a.mVTable, a.u, a.mSBO, gp), i, t, v)
                     EXCEPT !.any[i].mVTable = VTableT(t)]
      ELSE [PlaceEmpty(w, i, t, v) EXCEPT !.any[i].mVTable = VTableT(t)]

(***************************************************************************)
(* Observers, on the world an operation leaves behind                      *)
(***************************************************************************)
\* address of the inline buffer of container i
Inline(i) == <<"inline", i>>

\* const T *TryGet<T>() const
TryGet(w, i, t) ==
    IF ~Is(w.any[i], t) THEN NULL
    ELSE IF w.any[i].mSBO THEN Inline(i)
    ELSE ReadPtr(w.any[i].u, WILD)

\* explicit operator bool() const
NonEmpty(w, i) == w.any[i].mVTable # NoVT

NoObject == [t |-> "none", v |-> 0]

\* the live object an address designates, if any
At(w, p) ==
    IF p \in HeapAddrs
      THEN IF w.heap[p].used THEN [t |-> w.heap[p].t, v |-> w.heap[p].v] ELSE NoObject
    ELSE IF p \in ExtAddrs
      THEN IF w.ext[p].alive THEN [t |-> ExtType(p), v |-> w.ext[p].v] ELSE NoObject
    ELSE IF p[1] = "inline"
      THEN IF w.any[p[2]].live /\ w.any[p[2]].mSBO /\ w.any[p[2]].u.k = "obj"
             THEN [t |-> w.any[p[2]].u.t, v |-> w.any[p[2]].u.v] ELSE NoObject
    ELSE NoObject

\* const T &Get<T>() const: the object the returned reference designates
Get(w, i, t) ==
    IF w.any[i].mSBO THEN At(w, Inline(i)) ELSE At(w, ReadPtr(w.any[i].u, WILD))

\* x = v, executed by the owner of the external object x
WriteExternal(w, x, v) == [w EXCEPT !.ext[x].v = v]

(***************************************************************************)
(* The state machine: a client program that creates, assigns, swaps and    *)
(* destroys containers, and mutates the external object directly.          *)
(***************************************************************************)
Init ==
    /\ any = [i \in AllSlots |-> DeadAny]
    /\ heap = [h \in HeapAddrs |-> FreeCell]
    /\ ext \in [ExtAddrs -> [alive : {TRUE}, v : Values]]
    /\ fault = "none"

\* the operation ran to completion (operator new did not run out of cells);
\* once an operation has had undefined behaviour, or an exception has left
\* it (nothing here catches one), the run is over
Commit(w) ==
    /\ fault = "none"
    /\ ~w.oom
    /\ any' = w.any
    /\ heap' = w.heap
    /\ ext' = w.ext
    /\ fault' = w.fault

AnyFromValue(i, t, v) ==
    /\ ~any[i].live
    /\ Commit(CtorValue(W0, i, t, v))

AnyEmpty(i) ==
    /\ ~any[i].live
    /\ Commit(CtorDefault(W0, i))

AnyFromHandle(i, x) ==
    /\ ~any[i].live
    /\ Commit(CtorHandle(W0, i, x))

AnyCopy(i, j) ==
    /\ ~any[i].live /\ any[j].live /\ i # j
    /\ \E g \in Values, gp \in GarbagePtrs :
         Commit(CtorCopy(W0, i, j, g, gp))

AnyMove(i, j) ==
    /\ ~any[i].live /\ any[j].live /\ i # j
    /\ \E g \in Values, gp \in GarbagePtrs :
         Commit(CtorMove(W0, i, j, g, gp))

AnyDtor(i) ==
    /\ any[i].live
    /\ \E gp \in GarbagePtrs : Commit(Dtor(W0, i, gp))

AssignCopy(i, j) ==
    /\ any[i].live /\ any[j].live
    /\ \E g \in Values, gp \in GarbagePtrs :
         Commit(OpAssignCopy(W0, i, j, g, gp))

AssignMove(i, j) ==
    /\ any[i].live /\ any[j].live
    /\ \E g \in Values, gp \in GarbagePtrs :
         Commit(OpAssignMove(W0, i, j, g, gp))

\* copying the payload of a value-mode source can throw
AssignCopyThrows(i, j) ==
    /\ any[i].live /\ any[j].live /\ any[j].mVTable[1] = "val"
    /\ \E late \in BOOLEAN, gp \in GarbagePtrs :
         Commit(OpAssignCopyThrows(W0, i, j, late, gp))

AssignMoveThrows(i, j) ==
    /\ any[i].live /\ any[j].live /\ any[j].mVTable[1] = "val"
    /\ \E late \in BOOLEAN, gp \in GarbagePtrs :
         Commit(OpAssignMoveThrows(W0, i, j, late, gp))

AssignHandle(i, x) ==
    /\ any[i].live
    /\ \E g \in Values, gp \in GarbagePtrs :
         Commit(OpAssignHandle(W0, i, x, g, gp))

AssignValue(i, t, v) ==
    /\ any[i].live
    /\ \E gp \in GarbagePtrs :
         Commit(OpAssignValue(W0, i, t, v, gp))

SwapAny(i, j) ==
    /\ any[i].live /\ any[j].live
    /\ \E g \in Values, gp \in GarbagePtrs :
         Commit(Swap(W0, i, j, g, gp))

\* the owner of the external object writes to it directly
MutateExternal(x, v) ==
    /\ ext[x].alive
    /\ Commit(WriteExternal(W0, x, v))

Next ==
    \/ \E i \in Slots, t \in Types, v \in Values : AnyFromValue(i, t, v)
    \/ \E i \in Slots : AnyEmpty(i)
    \/ \E i \in Slots, x \in ExtAddrs : AnyFromHandle(i, x)
    \/ \E i \in Slots, j \in Slots : AnyCopy(i, j)
    \/ \E i \in Slots, j \in Slots : AnyMove(i, j)
    \/ \E i \in Slots : AnyDtor(i)
    \/ \E i \in Slots, j \in Slots : AssignCopy(i, j)
    \/ \E i \in Slots, j \in Slots : AssignMove(i, j)
    \/ \E i \in Slots, j \in Slots : AssignCopyThrows(i, j)
    \/ \E i \in Slots, j \in Slots : AssignMoveThrows(i, j)
    \/ \E i \in Slots, x \in ExtAddrs : AssignHandle(i, x)
    \/ \E i \in Slots, t \in Types, v \in Values : AssignValue(i, t, v)
    \/ \E i \in Slots, j \in Slots : SwapAny(i, j)
    \/ \E x \in ExtAddrs, v \in Values : MutateExternal(x, v)

Spec == Init /\ [][Next]_vars

(***************************************************************************)
(* Vocabulary of the properties                                            *)
(***************************************************************************)
Corrupt == [t |-> "corrupt", v |-> 0]

\* what container i holds: the object TryGet of its bound type designates
Payload(w, i) ==
    IF w.any[i].mVTable = NoVT THEN NoObject
    ELSE IF At(w, TryGet(w, i, w.any[i].mVTable[2])).t = w.any[i].mVTable[2]
      THEN At(w, TryGet(w, i, w.any[i].mVTable[2]))
    ELSE Corrupt

ValueMode(w, i) == w.any[i].live /\ w.any[i].mVTable[1] = "val"
RefMode(w, i) == w.any[i].live /\ w.any[i].mVTable[1] = "ref"

\* the heap cell a value-mode container owns, NULL if it owns none
OwnedCell(w, i) ==
    IF ValueMode(w, i) /\ ~w.any[i].mSBO /\ w.any[i].u.k = "ptr"
         /\ w.any[i].u.p \in HeapAddrs
      THEN w.any[i].u.p ELSE NULL

\* container i holds a value it manages: an inline object of its bound
\* type, or a live heap object of that type no other container points to
GoodValue(w, i) ==
    /\ ValueMode(w, i)
    /\ Payload(w, i) # Corrupt
    /\ ~w.any[i].mSBO =>
         /\ OwnedCell(w, i) # NULL
         /\ \A k \in AllSlots \ {i} :
              w.any[k].live /\ w.any[k].u.k = "ptr" => w.any[k].u.p # OwnedCell(w, i)

\* container i refers to a live external object
GoodRef(w, i) ==
    /\ RefMode(w, i)
    /\ ~w.any[i].mSBO
    /\ w.any[i].u.k = "ptr"
    /\ w.any[i].u.p \in ExtAddrs

\* allocated cells that no value-mode container owns any more
Leaked(w) ==
    {h \in HeapAddrs : w.heap[h].used /\ \A i \in AllSlots : OwnedCell(w, i) # h}

UsedCells(w) == {h \in HeapAddrs : w.heap[h].used}

\* the counters of allocations and releases restart for the next operation
Fresh(w) == [w EXCEPT !.na = 0, !.nf = 0, !.nc = 0, !.nd = 0, !.lost = 0]

ReleaseFaults == {"wild_release", "double_release", "type_mismatch"}

(***************************************************************************)
(* C1.  Every heap allocation made for a value-mode payload is released    *)
(* exactly once, through the table of its type, and no later than the      *)
(* destruction of its owner: no cell is leaked, none is released twice,    *)
(* and nothing that operator new did not return is passed to delete.       *)
(***************************************************************************)
C1_HeapDiscipline ==
    /\ fault \notin ReleaseFaults
    /\ Leaked(W0) = {}

(***************************************************************************)
(* C2.  Swap(a, b) of two distinct containers holding values, in each of   *)
(* the four storage-mode combinations, leaves a holding the value and type *)
(* b held and b holding the value and type a held, with the storage-mode   *)
(* flags and table pointers exchanged.                                     *)
(***************************************************************************)
C2_SwapExchanges ==
    [][\A i \in Slots, j \in Slots :
         (i # j /\ GoodValue(W0, i) /\ GoodValue(W0, j) /\ SwapAny(i, j)) =>
           /\ Payload(W0, i)' = Payload(W0, j)
           /\ Payload(W0, j)' = Payload(W0, i)
           /\ any'[i].mSBO = any[j].mSBO /\ any'[j].mSBO = any[i].mSBO
           /\ any'[i].mVTable = any[j].mVTable /\ any'[j].mVTable = any[i].mVTable]_vars

(***************************************************************************)
(* C3.  Assigning a raw value of type T to a container that is empty or    *)
(* holds another type places the payload by the rule of construction:      *)
(* inline iff sizeof(T) <= SIZE, on the heap otherwise.                    *)
(***************************************************************************)
C3_AssignPlacement ==
    [][\A i \in Slots, t \in Types, v \in Values :
         (any[i].live /\ ~Is(any[i], t) /\ AssignValue(i, t, v)) =>
           /\ any'[i].mVTable = VTableT(t)
           /\ any'[i].mSBO <=> (SizeOf(t) <= SIZE)
           /\ any'[i].mSBO = CtorValue(W0, i, t, v).any[i].mSBO]_vars

(***************************************************************************)
(* C4.  A container constructed from a value v of type T answers           *)
(* Is<T>() = true, TryGet<T>() is non-null and designates an object equal  *)
(* to v, and for every other type U, Is<U>() = false and TryGet<U>() is    *)
(* null.                                                                   *)
(***************************************************************************)
C4_RoundTrip ==
    \A i \in Slots, t \in Types, v \in Values :
      (fault = "none" /\ ~any[i].live /\ ~CtorValue(W0, i, t, v).oom) =>
        LET w == CtorValue(W0, i, t, v) IN
        /\ Is(w.any[i], t)
        /\ TryGet(w, i, t) # NULL
        /\ At(w, TryGet(w, i, t)) = [t |-> t, v |-> v]
        /\ Get(w, i, t) = [t |-> t, v |-> v]
        /\ \A U \in Types \ {t} : ~Is(w.any[i], U) /\ TryGet(w, i, U) = NULL

\* a container can be built from a value that goes to the heap, and it
\* answers the queries for that value
C4_Witness ==
    \E i \in Slots, t \in Types, v \in Values :
      /\ fault = "none" /\ ~any[i].live /\ ~CtorValue(W0, i, t, v).oom
      /\ SizeOf(t) > SIZE
      /\ At(CtorValue(W0, i, t, v), TryGet(CtorValue(W0, i, t, v), i, t)) = [t |-> t, v |-> v]
      /\ \E k \in Slots \ {i} : GoodValue(W0, k) /\ any[k].mSBO

(***************************************************************************)
(* C5.  Constructing from a value of a type with sizeof(T) <= SIZE stores  *)
(* it inline and allocates nothing; constructing from a value of a type    *)
(* with sizeof(T) > SIZE allocates exactly one heap cell, and destroying   *)
(* that container releases exactly that one cell.                          *)
(***************************************************************************)
C5_Placement ==
    \A i \in Slots, t \in Types, v \in Values :
      (fault = "none" /\ ~any[i].live /\ ~CtorValue(W0, i, t, v).oom) =>
        LET w == CtorValue(W0, i, t, v) IN
        /\ SizeOf(t) <= SIZE =>
             /\ w.any[i].mSBO
             /\ w.any[i].u = Obj(t, v)
             /\ w.na = 0 /\ w.nf = 0 /\ w.heap = heap
        /\ SizeOf(t) > SIZE =>
             /\ ~w.any[i].mSBO
             /\ w.na = 1 /\ w.nf = 0
             /\ Cardinality(UsedCells(w)) = Cardinality(UsedCells(W0)) + 1
             /\ OwnedCell(w, i) \in UsedCells(w) \ UsedCells(W0)
             /\ \A gp \in GarbagePtrs :
                  /\ Dtor(Fresh(w), i, gp).nf = 1
                  /\ Dtor(Fresh(w), i, gp).na = 0
                  /\ Dtor(Fresh(w), i, gp).heap = heap
                  /\ Dtor(Fresh(w), i, gp).fault = "none"

\* both placements happen: a small value while another container owns a
\* heap cell, and a large value that is allocated and released again
C5_Witness ==
    \E i \in Slots, v \in Values :
      /\ fault = "none" /\ ~any[i].live
      /\ UsedCells(W0) # {}
      /\ ~CtorValue(W0, i, "str", v).oom
      /\ CtorValue(W0, i, "str", v).na = 1
      /\ Dtor(Fresh(CtorValue(W0, i, "str", v)), i, WILD).nf = 1
      /\ CtorValue(W0, i, "dbl", v).any[i].mSBO

(***************************************************************************)
(* C6.  A container constructed from a handle to an external object x of   *)
(* type T aliases x: a later direct write to x is what Get<T> and          *)
(* TryGet<T> observe, and destroying the container neither destroys nor    *)
(* deallocates nor changes x.                                              *)
(***************************************************************************)
C6_HandleAliases ==
    /\ \A k \in Slots, v \in Values, gp \in GarbagePtrs :
         (fault = "none" /\ GoodRef(W0, k)) =>
           /\ Get(WriteExternal(W0, any[k].u.p, v), k, any[k].mVTable[2])
                = [t |-> ExtType(any[k].u.p), v |-> v]
           /\ Dtor(W0, k, gp).ext = ext
           /\ Dtor(W0, k, gp).nf = 0
    /\ \A i \in Slots, x \in ExtAddrs :
      (fault = "none" /\ ~any[i].live /\ ext[x].alive) =>
        LET w == CtorHandle(W0, i, x) IN
        /\ Is(w.any[i], ExtType(x))
        /\ TryGet(w, i, ExtType(x)) = x
        /\ w.na = 0 /\ w.heap = heap /\ w.ext = ext
        /\ \A v \in Values :
             /\ Get(WriteExternal(w, x, v), i, ExtType(x)) = [t |-> ExtType(x), v |-> v]
             /\ At(WriteExternal(w, x, v), TryGet(WriteExternal(w, x, v), i, ExtType(x)))
                  = [t |-> ExtType(x), v |-> v]
             /\ \A gp \in GarbagePtrs :
                  /\ Dtor(WriteExternal(w, x, v), i, gp).ext = WriteExternal(w, x, v).ext
                  /\ Dtor(WriteExternal(w, x, v), i, gp).nf = 0
                  /\ Dtor(WriteExternal(w, x, v), i, gp).heap = heap
                  /\ Dtor(WriteExternal(w, x, v), i, gp).fault = "none"

\* a handle container is built next to an existing one, the external object
\* is then given a new value, and both containers show the new value
C6_Witness ==
    \E i \in Slots, x \in ExtAddrs, v \in Values :
      /\ fault = "none" /\ ~any[i].live /\ ext[x].alive
      /\ \E k \in Slots \ {i} :
           /\ GoodRef(W0, k)
           /\ Get(WriteExternal(CtorHandle(W0, i, x), x, v), k, ExtType(x)).v = v
      /\ v # ext[x].v
      /\ Get(WriteExternal(CtorHandle(W0, i, x), x, v), i, ExtType(x)).v = v
      /\ Dtor(WriteExternal(CtorHandle(W0, i, x), x, v), i, WILD).ext[x].alive

(***************************************************************************)
(* C7.  Copying or moving from a reference-mode container (construction    *)
(* or assignment) yields a reference-mode container bound to the same      *)
(* table and holding the same external address, without allocating; and    *)
(* copy, move, assignment, Swap and destruction among reference-mode       *)
(* containers never destroy, deallocate or change the external object.     *)
(***************************************************************************)
C7_FromRef(w, i, j) ==
    /\ w.any[i].live
    /\ w.any[i].mVTable = any[j].mVTable
    /\ w.any[i].u = any[j].u
    /\ w.any[i].mSBO = FALSE
    /\ w.na = 0
    /\ w.ext = ext

C7_RefOnly(w) == w.ext = ext /\ w.heap = heap /\ w.na = 0 /\ w.nf = 0 /\ w.fault = "none"

C7_ReferenceFrame ==
    fault = "none" =>
    \A j \in Slots : GoodRef(W0, j) =>
      \A g \in Values, gp \in GarbagePtrs :
        /\ C7_RefOnly(Dtor(W0, j, gp))
        /\ \A i \in Slots :
             /\ ~any[i].live =>
                  /\ C7_FromRef(CtorCopy(W0, i, j, g, gp), i, j)
                  /\ C7_FromRef(CtorMove(W0, i, j, g, gp), i, j)
                  /\ CtorCopy(W0, i, j, g, gp).heap = heap
                  /\ CtorMove(W0, i, j, g, gp).heap = heap
             /\ any[i].live =>
                  /\ C7_FromRef(OpAssignCopy(W0, i, j, g, gp), i, j)
                  /\ C7_FromRef(OpAssignMove(W0, i, j, g, gp), i, j)
             /\ GoodRef(W0, i) =>
                  /\ C7_RefOnly(OpAssignCopy(W0, i, j, g, gp))
                  /\ C7_RefOnly(OpAssignMove(W0, i, j, g, gp))
                  /\ C7_RefOnly(Swap(W0, i, j, g, gp))
                  /\ \A x \in ExtAddrs : C7_RefOnly(OpAssignHandle(W0, i, x, g, gp))

\* a reference-mode container is copy-assigned over a container that owns
\* a heap value: the target becomes a second reference to the same object
C7_Witness ==
    \E i \in Slots, j \in Slots :
      /\ fault = "none" /\ i # j
      /\ GoodRef(W0, j)
      /\ GoodValue(W0, i) /\ ~any[i].mSBO
      /\ OpAssignCopy(W0, i, j, 1, WILD).any[i] = any[j]
      /\ OpAssignCopy(W0, i, j, 1, WILD).nf = 1

(***************************************************************************)
(* C8.  After copy-constructing b from a value-mode a (inline or heap) the *)
(* two hold independent payloads: mutating, reassigning or destroying one  *)
(* of them leaves the value and type of the other unchanged.               *)
(***************************************************************************)
C8_Untouched(w, w2, b) ==
    (~w2.oom /\ w2.fault = "none") => Payload(w2, b) = Payload(w, b) /\ GoodValue(w2, b)

C8_After(w, a, b, g, gp) ==
    /\ Payload(Dtor(w, a, gp), b) = Payload(w, b)
    /\ GoodValue(Dtor(w, a, gp), b)
    /\ Dtor(w, a, gp).fault = "none"
    /\ \A t \in Types, v \in Values :
         /\ C8_Untouched(w, OpAssignValue(w, a, t, v, gp), b)
         /\ ~OpAssignValue(w, a, t, v, gp).oom => OpAssignValue(w, a, t, v, gp).fault = "none"
    /\ \A x \in ExtAddrs : C8_Untouched(w, OpAssignHandle(w, a, x, g, gp), b)
    /\ \A c \in Slots : w.any[c].live =>
         /\ C8_Untouched(w, OpAssignCopy(w, a, c, g, gp), b)
         /\ C8_Untouched(w, OpAssignMove(w, a, c, g, gp), b)

C8_CopyIndependent ==
    fault = "none" =>
    \A i \in Slots, j \in Slots :
      (GoodValue(W0, j) /\ ~any[i].live) =>
        \A g \in Values, gp \in GarbagePtrs :
          LET w == CtorCopy(W0, i, j, g, gp) IN
          ~w.oom =>
            /\ w.fault = "none"
            /\ Payload(w, i) = Payload(W0, j)
            /\ Payload(w, j) = Payload(W0, j)
            /\ w.any[i].mVTable = any[j].mVTable /\ w.any[i].mSBO = any[j].mSBO
            /\ GoodValue(w, i) /\ GoodValue(w, j)
            /\ C8_After(w, i, j, g, gp)
            /\ C8_After(w, j, i, g, gp)

\* a heap payload is copied, then the original is given another value and
\* destroyed, and the copy still holds the value that was copied
C8_Witness ==
    \E i \in Slots, j \in Slots, v \in Values :
      /\ fault = "none" /\ GoodValue(W0, j) /\ ~any[j].mSBO /\ ~any[i].live
      /\ ~CtorCopy(W0, i, j, 1, WILD).oom
      /\ v # Payload(W0, j).v
      /\ Payload(OpAssignValue(CtorCopy(W0, i, j, 1, WILD), j, any[j].mVTable[2], v, WILD), j).v = v
      /\ Payload(OpAssignValue(CtorCopy(W0, i, j, 1, WILD), j, any[j].mVTable[2], v, WILD), i)
           = Payload(W0, j)
      /\ Payload(Dtor(CtorCopy(W0, i, j, 1, WILD), j, WILD), i) = Payload(W0, j)

(***************************************************************************)
(* C9.  After move-constructing d from a non-empty value-mode s (inline or *)
(* heap), d holds the type and value s held, and s is still destructible:  *)
(* destroying s and d, in either order, releases each heap cell exactly    *)
(* once and destroys no object twice.                                      *)
(***************************************************************************)
C9_BothDestroyed(w2, s) ==
    /\ w2.fault = "none"
    /\ w2.na = 0
    /\ w2.nf = (IF any[s].mSBO THEN 0 ELSE 2)
    /\ UsedCells(w2) = UsedCells(W0) \ {OwnedCell(W0, s)}
    /\ Leaked(w2) = Leaked(W0)

C9_MoveConstruct ==
    fault = "none" =>
    \A d \in Slots, s \in Slots :
      (GoodValue(W0, s) /\ ~any[d].live) =>
        \A g \in Values, gp \in GarbagePtrs :
          LET w == CtorMove(W0, d, s, g, gp) IN
          ~w.oom =>
            /\ w.fault = "none"
            /\ Payload(w, d) = Payload(W0, s)
            /\ w.any[d].mVTable = any[s].mVTable
            /\ GoodValue(w, d) /\ GoodValue(w, s)
            /\ C9_BothDestroyed(Dtor(Dtor(Fresh(w), s, gp), d, gp), s)
            /\ C9_BothDestroyed(Dtor(Dtor(Fresh(w), d, gp), s, gp), s)

\* a heap payload is moved into a new container and both are destroyed:
\* two cells are released
C9_Witness ==
    \E d \in Slots, s \in Slots :
      /\ fault = "none" /\ GoodValue(W0, s) /\ ~any[s].mSBO /\ ~any[d].live
      /\ ~CtorMove(W0, d, s, 1, WILD).oom
      /\ Payload(CtorMove(W0, d, s, 1, WILD), d) = Payload(W0, s)
      /\ Dtor(Dtor(Fresh(CtorMove(W0, d, s, 1, WILD)), s, WILD), d, WILD).nf = 2

(***************************************************************************)
(* C10.  After move construction from, or move assignment from, a          *)
(* non-empty container s distinct from the destination, s is still         *)
(* non-empty: its table pointer and storage-mode flag are what they were,  *)
(* and in the heap case its pointer slot still holds its own allocation.   *)
(***************************************************************************)
C10_SourceKept(w, s) ==
    /\ NonEmpty(w, s)
    /\ w.any[s].mVTable = any[s].mVTable
    /\ w.any[s].mSBO = any[s].mSBO
    /\ w.any[s].u = any[s].u
    /\ GoodValue(W0, s) /\ ~any[s].mSBO =>
         /\ OwnedCell(w, s) = OwnedCell(W0, s)
         /\ w.heap[OwnedCell(W0, s)] = heap[OwnedCell(W0, s)]
         /\ GoodValue(w, s)

C10_MovedFromKept ==
    fault = "none" =>
    \A d \in Slots, s \in Slots :
      (d # s /\ any[s].live /\ NonEmpty(W0, s)) =>
        \A g \in Values, gp \in GarbagePtrs :
          /\ ~any[d].live => C10_SourceKept(CtorMove(W0, d, s, g, gp), s)
          /\ any[d].live => C10_SourceKept(OpAssignMove(W0, d, s, g, gp), s)

\* a heap payload is move-assigned over a container holding an inline
\* value: the destination takes the value and the source keeps its cell
C10_Witness ==
    \E d \in Slots, s \in Slots :
      /\ fault = "none" /\ d # s
      /\ GoodValue(W0, s) /\ ~any[s].mSBO
      /\ GoodValue(W0, d) /\ any[d].mSBO
      /\ ~OpAssignMove(W0, d, s, 1, WILD).oom
      /\ Payload(OpAssignMove(W0, d, s, 1, WILD), d) = Payload(W0, s)
      /\ OpAssignMove(W0, d, s, 1, WILD).any[s] = any[s]
      /\ OwnedCell(OpAssignMove(W0, d, s, 1, WILD), d) # OwnedCell(W0, s)

(***************************************************************************)
(* C11.  Assigning a raw value of type T to a container that already holds *)
(* a T in value mode assigns in place: no object is destroyed or           *)
(* constructed, nothing is allocated or released, the table pointer, the   *)
(* flag and (heap case) the pointer slot are unchanged, and afterwards the *)
(* container holds the assigned value.                                     *)
(***************************************************************************)
C11_InPlaceAssign ==
    fault = "none" =>
    \A i \in Slots, t \in Types, v \in Values, gp \in GarbagePtrs :
      (GoodValue(W0, i) /\ any[i].mVTable = VTableT(t)) =>
        LET w == OpAssignValue(W0, i, t, v, gp) IN
        /\ w.fault = "none" /\ ~w.oom
        /\ w.na = 0 /\ w.nf = 0 /\ w.nc = 0 /\ w.nd = 0 /\ w.lost = 0
        /\ w.any[i].mVTable = any[i].mVTable
        /\ w.any[i].mSBO = any[i].mSBO
        /\ ~any[i].mSBO => w.any[i].u = any[i].u
        /\ UsedCells(w) = UsedCells(W0)
        /\ \A h \in HeapAddrs \ {OwnedCell(W0, i)} : w.heap[h] = heap[h]
        /\ \A k \in AllSlots \ {i} : w.any[k] = any[k]
        /\ w.ext = ext
        /\ GoodValue(w, i)
        /\ Payload(w, i) = [t |-> t, v |-> v]

\* a container holding a heap value of T is assigned a different value of
\* T, and the value it holds changes inside the same cell
C11_Witness ==
    \E i \in Slots, t \in Types, v \in Values :
      /\ fault = "none"
      /\ GoodValue(W0, i) /\ any[i].mVTable = VTableT(t) /\ ~any[i].mSBO
      /\ Payload(W0, i).v # v
      /\ Payload(OpAssignValue(W0, i, t, v, WILD), i) = [t |-> t, v |-> v]
      /\ OwnedCell(OpAssignValue(W0, i, t, v, WILD), i) = OwnedCell(W0, i)

(***************************************************************************)
(* C12.  For a container a in any state (empty, inline value, heap value,  *)
(* reference), the self copy-assignment a = a and the self swap            *)
(* swap(a, a) leave a holding the same type and value in the same storage  *)
(* mode, and a can still be destroyed: nothing is leaked and nothing is    *)
(* released twice.                                                         *)
(***************************************************************************)
\* container i is empty, or holds a well-formed value or reference
C12_Sound(w, i) ==
    w.any[i].live /\ (~NonEmpty(w, i) \/ GoodValue(w, i) \/ GoodRef(w, i))

\* world w holds in container i what the current state holds there, and
\* destroying i in w releases what i owned and nothing else
C12_Same(w, i) ==
    /\ w.fault = "none"
    /\ w.any[i].mVTable = any[i].mVTable
    /\ w.any[i].mSBO = any[i].mSBO
    /\ Payload(w, i) = Payload(W0, i)
    /\ C12_Sound(w, i)
    /\ GoodValue(W0, i) <=> GoodValue(w, i)
    /\ GoodRef(W0, i) => w.any[i].u = any[i].u
    /\ \A k \in Slots \ {i} : w.any[k] = any[k]
    /\ ~w.any[TMP].live
    /\ w.ext = ext
    /\ Leaked(w) = Leaked(W0)
    /\ Cardinality(UsedCells(w)) = Cardinality(UsedCells(W0))
    /\ w.na = w.nf
    /\ \A gp \in GarbagePtrs :
         /\ Dtor(w, i, gp).fault = "none"
         /\ Cardinality(UsedCells(Dtor(w, i, gp))) =
              Cardinality(UsedCells(W0) \ {OwnedCell(W0, i)})
         /\ Leaked(Dtor(w, i, gp)) = Leaked(W0)
         /\ Dtor(w, i, gp).ext = ext

C12_SelfAssignSwap ==
    fault = "none" =>
    \A i \in Slots, g \in Values, gp \in GarbagePtrs :
      C12_Sound(W0, i) =>
        /\ ~OpAssignCopy(W0, i, i, g, gp).oom => C12_Same(OpAssignCopy(W0, i, i, g, gp), i)
        /\ C12_Same(Swap(W0, i, i, g, gp), i)
        /\ Swap(W0, i, i, g, gp).heap = heap
        /\ Swap(W0, i, i, g, gp).na = 0 /\ Swap(W0, i, i, g, gp).nf = 0

\* a container that owns a heap value is assigned to itself: it ends up
\* with an equal value in another cell, and its former cell is released
C12_Witness ==
    \E i \in Slots :
      /\ fault = "none"
      /\ GoodValue(W0, i) /\ ~any[i].mSBO
      /\ ~OpAssignCopy(W0, i, i, 1, WILD).oom
      /\ Payload(OpAssignCopy(W0, i, i, 1, WILD), i) = Payload(W0, i)
      /\ OwnedCell(OpAssignCopy(W0, i, i, 1, WILD), i) # OwnedCell(W0, i)
      /\ OpAssignCopy(W0, i, i, 1, WILD).nf = 1
      /\ \E k \in Slots \ {i} : GoodValue(W0, k) /\ any[k].mSBO
                                  /\ Swap(W0, k, k, 1, WILD).any[k] = any[k]

(***************************************************************************)
(* C13.  A default-constructed container is falsy, and for every type T    *)
(* its TryGet<T>() is null and its Is<T>() is false; the same holds for a  *)
(* container copy-constructed or move-constructed from an empty container. *)
(***************************************************************************)
C13_Empty(w, i) ==
    /\ w.fault = "none" /\ ~w.oom
    /\ w.any[i].live
    /\ ~NonEmpty(w, i)
    /\ \A t \in Types : ~Is(w.any[i], t) /\ TryGet(w, i, t) = NULL
    /\ Payload(w, i) = NoObject
    /\ w.na = 0 /\ w.nf = 0 /\ w.nc = 0 /\ w.nd = 0
    /\ w.heap = heap /\ w.ext = ext

C13_EmptyQueries ==
    fault = "none" =>
    \A i \in Slots :
      ~any[i].live =>
        /\ C13_Empty(CtorDefault(W0, i), i)
        /\ \A j \in Slots \ {i}, g \in Values, gp \in GarbagePtrs :
             (any[j].live /\ ~NonEmpty(W0, j)) =>
               /\ C13_Empty(CtorCopy(W0, i, j, g, gp), i)
               /\ C13_Empty(CtorMove(W0, i, j, g, gp), i)
               /\ CtorCopy(W0, i, j, g, gp).any[j] = any[j]
               /\ CtorMove(W0, i, j, g, gp).any[j] = any[j]

\* an empty container that once held a heap value (it was emptied by a
\* swap with an empty one) is copied into a fresh container
C13_Witness ==
    \E i \in Slots, j \in Slots :
      /\ fault = "none" /\ i # j
      /\ ~any[i].live
      /\ any[j].live /\ ~NonEmpty(W0, j) /\ any[j].u # AnyDefault.u
      /\ ~NonEmpty(CtorCopy(W0, i, j, 1, WILD), i)
      /\ CtorCopy(W0, i, j, 1, WILD).any[i].live
      /\ TryGet(CtorMove(W0, i, j, 1, WILD), i, "str") = NULL

(***************************************************************************)
(* C14.  If constructing the temporary in a copy or move assignment fails  *)
(* (the payload's copy/move constructor or the heap allocation throws),    *)
(* the assigned-to container is untouched: same table pointer, flag and    *)
(* payload, and nothing has been destroyed or released on its behalf.      *)
(***************************************************************************)
C14_Untouched(w) ==
    /\ w.fault = "exception"
    /\ \A k \in Slots : w.any[k] = any[k]
    /\ \A k \in Slots : Payload(w, k) = Payload(W0, k)
    /\ ~w.any[TMP].live
    /\ w.heap = heap /\ w.ext = ext
    /\ w.nc = 0 /\ w.nd = 0 /\ w.lost = 0
    /\ w.na = w.nf /\ w.nf <= 1

C14_ThrowLeavesTarget ==
    fault = "none" =>
    \A i \in Slots, j \in Slots, late \in BOOLEAN, gp \in GarbagePtrs :
      (any[i].live /\ ValueMode(W0, j)) =>
        /\ C14_Untouched(OpAssignCopyThrows(W0, i, j, late, gp))
        /\ C14_Untouched(OpAssignMoveThrows(W0, i, j, late, gp))

\* an exception has left an assignment while a container owning a heap
\* value and one holding an inline value exist, both still well-formed
C14_Witness ==
    /\ fault = "exception"
    /\ \E i \in Slots, j \in Slots :
         /\ GoodValue(W0, i) /\ ~any[i].mSBO
         /\ GoodValue(W0, j) /\ any[j].mSBO
    /\ Leaked(W0) = {}

(***************************************************************************)
(* C15.  The sequence: build a container from the int a, assign the string *)
(* s to it, assign the int b to it.  After the first step Is<int>() is     *)
(* true, TryGet<double>() is null and Get<int>() is a; the string          *)
(* assignment rebinds the table pointer and releases no storage            *)
(* improperly; the final assignment is an in-place assignment (no          *)
(* destruction, construction, allocation or release) and yields            *)
(* Get<int>() = b.                                                         *)
(***************************************************************************)
\* container i as Any(a) with an int a leaves it
C15_Built(i, a) ==
    any[i] = [live |-> TRUE, mVTable |-> VTableT("int"), u |-> Obj("int", a), mSBO |-> TRUE]

\* the container after the string s has been assigned to it
C15_AfterString(i, s, gp) == OpAssignValue(W0, i, "str", s, gp)

\* the container after the int b has then been assigned to it
C15_AfterInt(i, s, b, gp) ==
    OpAssignValue(Fresh(C15_AfterString(i, s, gp)), i, "int", b, gp)

\* steps one and two of the sequence
C15_FirstTwo(i, a, s, gp) ==
    /\ Is(any[i], "int")
    /\ TryGet(W0, i, "dbl") = NULL
    /\ Get(W0, i, "int") = [t |-> "int", v |-> a]
    /\ LET w == C15_AfterString(i, s, gp) IN
       /\ w.fault = "none"
       /\ w.any[i].mVTable = VTableT("str")
       /\ ~w.any[i].mSBO
       /\ GoodValue(w, i)
       /\ Get(w, i, "str") = [t |-> "str", v |-> s]
       /\ w.nd = 1 /\ w.nf = 0 /\ w.na = 1 /\ w.lost = 0
       /\ Leaked(w) = Leaked(W0)

C15_Sequence ==
    fault = "none" =>
    \A i \in Slots, a \in Values, s \in Values, b \in Values, gp \in GarbagePtrs :
      (C15_Built(i, a) /\ ~C15_AfterString(i, s, gp).oom) =>
        /\ C15_FirstTwo(i, a, s, gp)
        /\ LET w == C15_AfterInt(i, s, b, gp) IN
           /\ w.fault = "none"
           /\ Get(w, i, "int") = [t |-> "int", v |-> b]
           /\ w.nd = 0 /\ w.nc = 0 /\ w.nf = 0 /\ w.na = 0

\* C15 as the code has it: the final assignment finds a string in the
\* container, so it destroys the string, releasing its cell, and constructs
\* the int in the inline buffer without allocating; Get<int>() is b
C15_SequenceRebuilds ==
    fault = "none" =>
    \A i \in Slots, a \in Values, s \in Values, b \in Values, gp \in GarbagePtrs :
      (C15_Built(i, a) /\ ~C15_AfterString(i, s, gp).oom) =>
        /\ C15_FirstTwo(i, a, s, gp)
        /\ LET w == C15_AfterInt(i, s, b, gp) IN
           /\ w.fault = "none"
           /\ Get(w, i, "int") = [t |-> "int", v |-> b]
           /\ w.any[i] = [live |-> TRUE, mVTable |-> VTableT("int"),
                          u |-> Obj("int", b), mSBO |-> TRUE]
           /\ w.nd = 1 /\ w.nf = 1 /\ w.nc = 1 /\ w.na = 0 /\ w.lost = 0
           /\ w.heap = heap
           /\ Leaked(w) = Leaked(W0)

\* the sequence runs from a container built from an int, with a cell free
\* for the string, and ends with another int in the container
C15_Witness ==
    \E i \in Slots, a \in Values, b \in Values :
      /\ fault = "none" /\ a # b
      /\ C15_Built(i, a)
      /\ ~C15_AfterString(i, 1, WILD).oom
      /\ Payload(C15_AfterString(i, 1, WILD), i) = [t |-> "str", v |-> 1]
      /\ Payload(C15_AfterInt(i, 1, b, WILD), i) = [t |-> "int", v |-> b]
      /\ C15_AfterInt(i, 1, b, WILD).nf = 1

(***************************************************************************)
(* C16.  In copy, move and handle assignment, for every prior state of     *)
(* *this (empty, inline value, heap value, reference) and every storage    *)
(* mode of the right-hand side: after the swap the temporary holds exactly *)
(* what *this held (payload intact, same table pointer, same flag), so the *)
(* temporary's destructor destroys the former contents of *this exactly    *)
(* once and nothing else, and *this holds the type and value of the        *)
(* right-hand side.                                                        *)
(***************************************************************************)
\* after the swap of *this (i) with the temporary, in world w
C16_TempHoldsOld(w, i) ==
    /\ w.fault = "none"
    /\ w.any[TMP].mVTable = any[i].mVTable
    /\ w.any[TMP].mSBO = any[i].mSBO
    /\ Payload(w, TMP) = Payload(W0, i)
    /\ GoodValue(W0, i) => GoodValue(w, TMP)
    /\ GoodRef(W0, i) => GoodRef(w, TMP)

\* the step destroyed what container i held, once, and nothing else, and
\* container i now holds an object equal to obj under table vt
C16_Replaced(i, vt, obj) ==
    /\ fault' = "none"
    /\ any'[i].mVTable = vt
    /\ Payload(W0, i)' = obj
    /\ C12_Sound(W0, i)'
    /\ \A k \in Slots \ {i} : any'[k] = any[k] /\ Payload(W0, k)' = Payload(W0, k)
    /\ ~any'[TMP].live
    /\ OwnedCell(W0, i) # NULL => OwnedCell(W0, i) \notin UsedCells(W0)'
    /\ Leaked(W0)' = Leaked(W0)
    /\ ext' = ext

C16_AssignBySwap ==
    [][\A i \in Slots :
         C12_Sound(W0, i) =>
           /\ \A j \in Slots \ {i} :
                (C12_Sound(W0, j) /\ NonEmpty(W0, j)) =>
                  /\ AssignCopy(i, j) =>
                       /\ C16_Replaced(i, any[j].mVTable, Payload(W0, j))
                       /\ \A g \in Values, gp \in GarbagePtrs :
                            ~CtorCopy(W0, TMP, j, g, gp).oom =>
                              C16_TempHoldsOld(
                                Swap(CtorCopy(W0, TMP, j, g, gp), i, TMP, g, gp), i)
                  /\ AssignMove(i, j) =>
                       /\ C16_Replaced(i, any[j].mVTable, Payload(W0, j))
                       /\ \A g \in Values, gp \in GarbagePtrs :
                            ~CtorMove(W0, TMP, j, g, gp).oom =>
                              C16_TempHoldsOld(
                                Swap(CtorMove(W0, TMP, j, g, gp), i, TMP, g, gp), i)
           /\ \A x \in ExtAddrs :
                AssignHandle(i, x) =>
                  /\ C16_Replaced(i, VTableH(ExtType(x)), At(W0, x))
                  /\ \A g \in Values, gp \in GarbagePtrs :
                       C16_TempHoldsOld(Swap(CtorHandle(W0, TMP, x), i, TMP, g, gp), i)]_vars

(***************************************************************************)
(* C17.  In every reachable state the table pointer, the flag and the      *)
(* payload of a container are consistent: for every type T, TryGet<T>() is *)
(* null exactly when Is<T>() is false, and when Is<T>() holds the address  *)
(* TryGet<T>() returns designates a live object of type T that this        *)
(* container holds.                                                        *)
(***************************************************************************)
C17_Consistent ==
    fault = "none" =>
    \A i \in Slots, t \in Types :
      any[i].live =>
        /\ TryGet(W0, i, t) = NULL <=> ~Is(any[i], t)
        /\ Is(any[i], t) =>
             /\ At(W0, TryGet(W0, i, t)).t = t
             /\ GoodValue(W0, i) \/ GoodRef(W0, i)

(***************************************************************************)
(* C18.  A null table pointer implies a false flag.  Consequently Swap     *)
(* never calls Move through a null table pointer, also when one or both    *)
(* sides are empty, and swapping a non-empty container with an empty one   *)
(* leaves the formerly empty side non-empty and the other side empty.      *)
(***************************************************************************)
C18_NullTableNotInline(w) ==
    \A k \in AllSlots : w.any[k].mVTable = NoVT => ~w.any[k].mSBO

C18_EmptySwap ==
    /\ C18_NullTableNotInline(W0)
    /\ fault # "null_call"
    /\ fault = "none" =>
         \A i \in Slots, j \in Slots, g \in Values, gp \in GarbagePtrs :
           (any[i].live /\ any[j].live) =>
             LET w == Swap(W0, i, j, g, gp) IN
             /\ w.fault # "null_call"
             /\ C18_NullTableNotInline(w)
             /\ (NonEmpty(W0, i) /\ ~NonEmpty(W0, j)) =>
                  /\ NonEmpty(w, j) /\ ~NonEmpty(w, i)
                  /\ w.any[j].mVTable = any[i].mVTable
                  /\ w.any[j].mSBO = any[i].mSBO
                  /\ \A t \in Types : ~Is(w.any[i], t) /\ TryGet(w, i, t) = NULL
             /\ (~NonEmpty(W0, i) /\ NonEmpty(W0, j)) =>
                  /\ NonEmpty(w, i) /\ ~NonEmpty(w, j)
                  /\ w.any[i].mVTable = any[j].mVTable
                  /\ w.any[i].mSBO = any[j].mSBO
             /\ (~NonEmpty(W0, i) /\ ~NonEmpty(W0, j)) =>
                  ~NonEmpty(w, i) /\ ~NonEmpty(w, j)

\* an inline value and an empty container exist, and swapping them in
\* either order moves the table pointer and the flag to the empty side
C18_Witness ==
    \E i \in Slots, j \in Slots :
      /\ fault = "none"
      /\ GoodValue(W0, i) /\ any[i].mSBO
      /\ any[j].live /\ ~NonEmpty(W0, j)
      /\ NonEmpty(Swap(W0, i, j, 1, WILD), j) /\ Swap(W0, i, j, 1, WILD).any[j].mSBO
      /\ ~NonEmpty(Swap(W0, j, i, 1, WILD), i) /\ ~Swap(W0, j, i, 1, WILD).any[i].mSBO

(***************************************************************************)
(* C19.  Assigning a raw value of type T to a container in reference mode  *)
(* for T takes the in-place branch: the value is assigned into the         *)
(* external object through the stored address, the container stays in      *)
(* reference mode (table pointer, pointer slot and flag unchanged), no     *)
(* object is destroyed and nothing is allocated; the container acquires no *)
(* owned copy.                                                             *)
(***************************************************************************)
C19_AssignThroughRef ==
    fault = "none" =>
    \A i \in Slots, x \in ExtAddrs, v \in Values, gp \in GarbagePtrs :
      (GoodRef(W0, i) /\ any[i].u.p = x /\ ext[x].alive) =>
        LET w == OpAssignValue(W0, i, ExtType(x), v, gp) IN
        /\ w.fault = "none" /\ ~w.oom
        /\ w.ext[x] = [alive |-> TRUE, v |-> v]
        /\ w.any = any
        /\ GoodRef(w, i)
        /\ w.heap = heap
        /\ w.na = 0 /\ w.nf = 0 /\ w.nc = 0 /\ w.nd = 0 /\ w.lost = 0
        /\ OwnedCell(w, i) = NULL
        /\ Get(w, i, ExtType(x)) = [t |-> ExtType(x), v |-> v]
        /\ \A k \in Slots : GoodRef(W0, k) /\ any[k].u.p = x =>
                              Payload(w, k) = [t |-> ExtType(x), v |-> v]

\* a container referring to x is assigned a value other than x's while
\* another container holds an owned value; x changes, the container not
C19_Witness ==
    \E i \in Slots, x \in ExtAddrs, v \in Values :
      /\ fault = "none"
      /\ GoodRef(W0, i) /\ any[i].u.p = x
      /\ ext[x].v # v
      /\ OpAssignValue(W0, i, ExtType(x), v, WILD).ext[x].v = v
      /\ OpAssignValue(W0, i, ExtType(x), v, WILD).any[i] = any[i]
      /\ \E k \in Slots \ {i} : GoodValue(W0, k)

(***************************************************************************)
(* C20.  Every payload object that is constructed (inline, on the heap, or *)
(* in the scratch buffer of an inline/inline Swap) is destroyed exactly    *)
(* once, and no object is constructed over storage that still holds an     *)
(* undestroyed object; in particular, after a Swap of two inline           *)
(* containers followed by their destruction the number of constructions    *)
(* equals the number of destructions.                                      *)
(***************************************************************************)
\* the Swap of i and j followed by the destruction of both, counted from
\* the start of the Swap
C20_SwapThenDestroy(i, j, g, gp) ==
    Dtor(Dtor(Swap(Fresh(W0), i, j, g, gp), i, gp), j, gp)

C20_ObjectsBalanced ==
    [][\A i \in Slots, j \in Slots :
         (/\ i # j
          /\ GoodValue(W0, i) /\ any[i].mSBO
          /\ GoodValue(W0, j) /\ any[j].mSBO
          /\ SwapAny(i, j)) =>
           \A g \in Values, gp \in GarbagePtrs :
             /\ Swap(Fresh(W0), i, j, g, gp).lost = 0
             /\ C20_SwapThenDestroy(i, j, g, gp).lost = 0
             \* the two payloads that existed before, and every one
             \* constructed since, have been destroyed
             /\ C20_SwapThenDestroy(i, j, g, gp).nd =
                  C20_SwapThenDestroy(i, j, g, gp).nc + 2]_vars

====
